---- MODULE Spec2Model ----
(***************************************************************************)
(* Survey Response Dashboard (src/shiptestapp.py).                         *)
(*                                                                         *)
(* A Streamlit script: every interaction (upload, "Segment by" choice,     *)
(* "Build ZIP" button) reruns the script top to bottom.  The model keeps   *)
(* the script's values as state and has one action per interaction.        *)
(*                                                                         *)
(* Strings are sequences of one-character strings, so that re.sub,         *)
(* re.search, str.split and str.strip are computed character by character. *)
(* A pandas Series is a record [name, dtype, cells]; the row labels are    *)
(* the positions 1..Len(cells) (the RangeIndex 0..n-1 shifted by one).     *)
(* Column names of one table are pairwise distinct after normalization     *)
(* (df[col] then selects one Series).                                      *)
(***************************************************************************)
EXTENDS Integers, Sequences, FiniteSets, TLC

VARIABLES
    uploaded,     \* the raw table (st.file_uploader + pd.read_csv), or NoFile
    df,           \* the table after clean_headers and drop_irrelevant
    photo_cols,   \* names matched by photo_re before drop_irrelevant
    combined,     \* the Combined Summary: [ok, rows]
    segment_col,  \* the "Segment by" selectbox value, None or a column name
    shown,        \* what the main display rendered, a sequence of blocks
    status,       \* "waiting" | "rendered" | "crashed" | specification phases
    passes,       \* how many times clean_headers has been applied
    prev,         \* the column names before the last clean_headers
    s,            \* the Series handed to a tally function
    sd,           \* the tally a summarize_* call returned: [ok, rows]
    fnname,       \* which summarize_* produced sd
    zip           \* the photo archive of this run: the column, the row labels
                  \* fetched in order, the entries written, what each fetch
                  \* answered, and whether the download button was rendered

vars == <<uploaded, df, photo_cols, combined, segment_col, shown, status,
          passes, prev, s, sd, fnname, zip>>

----------------------------------------------------------------------------
(* Bounds of the model.                                                    *)

MaxLen == 5      \* longest raw header drawn for header normalization
MaxRows == 2     \* most rows of an uploaded table
MaxCells == 3    \* most cells of a Series handed to a tally function alone
MaxUrls == 2     \* most rows of a photo column handed to the archiver

----------------------------------------------------------------------------
(* Values.                                                                 *)

\* The missing value (numpy NaN): a cell that is no string.
NaN == <<"NaN">>
\* Python's None.
None == <<"None">>
\* st.file_uploader before a file is chosen: no table
NoFile == <<>>

\* str(NaN), what Index.astype(str) makes of the missing category.
StrNaN == <<"n", "a", "n">>

Whitespace == {" "}
LowerLetters == {"a", "b", "c", "d", "e", "f", "g", "h", "i", "j", "k", "l", "m",
                 "n", "o", "p", "q", "r", "s", "t", "u", "v", "w", "x", "y", "z"}
UpperLetters == {"A", "B", "C", "E", "P", "Q", "S", "T"}
Digits == {"0", "1", "2"}
\* \w of the re module
WordChars == LowerLetters \cup UpperLetters \cup Digits \cup {"_"}

\* A sequence built pointwise, as the list a comprehension builds.
List(q) == q \o <<>>

\* str.lower / re.IGNORECASE, one character
lower(ch) ==
    CASE ch = "A" -> "a" [] ch = "B" -> "b" [] ch = "C" -> "c"
      [] ch = "E" -> "e" [] ch = "P" -> "p" [] ch = "Q" -> "q"
      [] ch = "S" -> "s" [] ch = "T" -> "t" [] OTHER -> ch

Lower(str) == List([i \in 1..Len(str) |-> lower(str[i])])

Min(S) == CHOOSE x \in S : \A y \in S : x <= y
Max(S) == CHOOSE x \in S : \A y \in S : x >= y

\* str.strip(): drop leading and trailing whitespace
Strip(str) ==
    LET keep == {i \in 1..Len(str) : str[i] \notin Whitespace}
    IN IF keep = {} THEN <<>> ELSE SubSeq(str, Min(keep), Max(keep))

----------------------------------------------------------------------------
(* clean_headers, lines 32-34.                                             *)

\* How far the whitespace run starting at i reaches (\s*, greedy).
RECURSIVE SkipSpace(_, _)
SkipSpace(str, i) ==
    IF i <= Len(str) /\ str[i] \in Whitespace THEN SkipSpace(str, i + 1) ELSE i

\* Mutant of SubParens: the pattern \s*\([^()]*\) removes innermost groups only.
RECURSIVE SubInnermost(_, _)
SubInnermost(str, i) ==
    IF i > Len(str) THEN <<>>
    ELSE LET p == SkipSpace(str, i)
             closers == {q \in (p + 1)..Len(str) : str[q] \in {"(", ")"}}
         IN IF p <= Len(str) /\ str[p] = "(" /\ closers # {}
                 /\ str[Min(closers)] = ")"
            THEN SubInnermost(str, Min(closers) + 1)
            ELSE <<str[i]>> \o SubInnermost(str, i + 1)

\* re.sub(r"\s*\([^)]*\)", "", c) scanning from position i: at each position
\* the pattern matches the whitespace run, a "(" and everything up to the
\* first ")" after it; a match is dropped and the scan goes on behind it,
\* no match copies one character.
RECURSIVE SubParens(_, _)
SubParens(str, i) ==
    IF i > Len(str) THEN <<>>
    ELSE LET p == SkipSpace(str, i)
             closers == {q \in (p + 1)..Len(str) : str[q] = ")"}
         IN IF p <= Len(str) /\ str[p] = "(" /\ closers # {}
            THEN SubParens(str, Min(closers) + 1)
            ELSE <<str[i]>> \o SubParens(str, i + 1)

\* one element of the list comprehension of line 33
clean_header(c) == Strip(SubParens(c, 1))

\* df.columns = [...]; return df
clean_headers(t) ==
    List([j \in 1..Len(t) |-> [t[j] EXCEPT !.name = clean_header(t[j].name)]])

----------------------------------------------------------------------------
(* pandas pieces the tally functions use.                                  *)

\* pd.read_csv / pd.read_excel, line 72: a column with at least one row and
\* no value at all is read as float64 (all NaN), any column holding a string
\* as object; a column of a table without rows is object.
read_dtype(cells) ==
    IF Len(cells) > 0 /\ \A i \in 1..Len(cells) : cells[i] = NaN
    THEN "float64" ELSE "object"

Series(name, cells) == [name |-> name, dtype |-> read_dtype(cells), cells |-> cells]

\* a call that raised
Raised == [ok |-> FALSE, rows |-> <<>>]
Returned(rows) == [ok |-> TRUE, rows |-> rows]

IsMissing(v) == v = NaN

\* Series.dropna(), the values
dropna(cells) == SelectSeq(cells, LAMBDA v : ~IsMissing(v))

RECURSIVE SumSeq(_)
SumSeq(q) == IF q = <<>> THEN 0 ELSE Head(q) + SumSeq(Tail(q))

RECURSIVE Flatten(_)
Flatten(qq) == IF qq = <<>> THEN <<>> ELSE Head(qq) \o Flatten(Tail(qq))

Occurrences(values, v) == Cardinality({i \in 1..Len(values) : values[i] = v})

\* Series.value_counts(): the distinct values with their counts, by
\* descending count, equal counts in order of first appearance.  Each entry
\* is <<value, count>>.
value_counts(values) ==
    LET firsts == {i \in 1..Len(values) : \A j \in 1..(i - 1) : values[j] # values[i]}
        cnt == [i \in firsts |-> Occurrences(values, values[i])]
        before(f, i) == cnt[f] > cnt[i] \/ (cnt[f] = cnt[i] /\ f < i)
        rank == [i \in firsts |-> Cardinality({f \in firsts : before(f, i)}) + 1]
        at == [k \in 1..Cardinality(firsts) |-> CHOOSE i \in firsts : rank[i] = k]
    IN List([k \in 1..Cardinality(firsts) |-> <<values[at[k]], cnt[at[k]]>>])

\* Mutant of value_counts_all: value_counts() with its default dropna=True.
value_counts_dropna(values) == value_counts(dropna(values))

\* s.value_counts(dropna=False), line 41: NaN is a category of its own
value_counts_all(values) == value_counts(values)

\* (c / total * 100).round(1), in tenths of a percent.  With fewer than 16
\* respondents the quotient is never halfway between two tenths, so
\* rounding to nearest is round() whatever its tie rule.
PercentTenths(count, total) == (count * 2000 + total) \div (2 * total)

\* c.index.astype(str)
astype_str(v) == IF IsMissing(v) THEN StrNaN ELSE v

TallyRow(v, count, total) ==
    [Response |-> astype_str(v), Count |-> count,
     Percent |-> PercentTenths(count, total)]

\* str.split(","), the pieces from position i on
RECURSIVE SplitFrom(_, _)
SplitFrom(str, i) ==
    LET commas == {q \in i..Len(str) : str[q] = ","}
    IN IF commas = {} THEN <<SubSeq(str, i, Len(str))>>
       ELSE <<SubSeq(str, i, Min(commas) - 1)>> \o SplitFrom(str, Min(commas) + 1)

split_comma(str) == SplitFrom(str, 1)

\* s.dropna().str.split(",").explode().str.strip(), line 51
explode_tokens(cells) ==
    LET nn == dropna(cells)
        ex == Flatten(List([i \in 1..Len(nn) |-> split_comma(nn[i])]))
    IN List([k \in 1..Len(ex) |-> Strip(ex[k])])

----------------------------------------------------------------------------
(* summarize_simple, lines 40-47, and summarize_multi, lines 49-58.        *)

summarize_simple(ser) ==
    LET c == value_counts_all(ser.cells)
        total == SumSeq(List([k \in 1..Len(c) |-> c[k][2]]))
    IN Returned(List([k \in 1..Len(c) |-> TallyRow(c[k][1], c[k][2], total)]))

\* The .str accessor raises AttributeError on a Series that is not of
\* object dtype, as an all-missing column read from a file is.  With
\* total = 0 there is no token either, so c / total divides nothing.
summarize_multi(ser) ==
    IF ser.dtype # "object" THEN Raised
    ELSE LET total == Len(dropna(ser.cells))
             c == value_counts(explode_tokens(ser.cells))
         IN Returned(List([k \in 1..Len(c) |-> TallyRow(c[k][1], c[k][2], total)]))

----------------------------------------------------------------------------
(* The column-name patterns, lines 37 and 63-64.  re.search with           *)
(* re.IGNORECASE: a literal matches at i when the lower-cased characters   *)
(* from i on spell it; "." matches any character of a header (headers      *)
(* hold no line break).                                                    *)

IsAt(str, w, i) ==
    /\ i >= 1
    /\ i + Len(w) - 1 <= Len(str)
    /\ \A k \in 1..Len(w) : lower(str[i + k - 1]) = w[k]

Finds(str, w) == {i \in 1..Len(str) : IsAt(str, w, i)}

\* a.*b
Then2(str, a, b) ==
    \E i \in Finds(str, a) : \E j \in Finds(str, b) : j >= i + Len(a)

\* a.*b.*c
Then3(str, a, b, c) ==
    \E i \in Finds(str, a) : \E j \in Finds(str, b) : \E k \in Finds(str, c) :
        j >= i + Len(a) /\ k >= j + Len(b)

\* \b at the gap before position i
WordBoundary(str, i) ==
    LET left == i - 1 >= 1 /\ str[i - 1] \in WordChars
        right == i <= Len(str) /\ str[i] \in WordChars
    IN left # right

W_first == <<"f", "i", "r", "s", "t">>
W_last == <<"l", "a", "s", "t">>
W_name == <<"n", "a", "m", "e">>
W_tracking == <<"t", "r", "a", "c", "k", "i", "n", "g">>
W_clean == <<"c", "l", "e", "a", "n">>
W_email == <<"e", "m", "a", "i", "l">>
W_token == <<"t", "o", "k", "e", "n">>
W_submitted == <<"s", "u", "b", "m", "i", "t", "t", "e", "d">>
W_at == <<"a", "t">>
W_select == <<"s", "e", "l", "e", "c", "t">>
W_appl == <<"a", "p", "p", "l">>
W_take == <<"t", "a", "k", "e">>
W_attach == <<"a", "t", "t", "a", "c", "h">>
W_picture == <<"p", "i", "c", "t", "u", "r", "e">>
W_photo == <<"p", "h", "o", "t", "o">>

\* rx of drop_irrelevant, line 37:
\* first.*last.*name|tracking|clean|email|\btoken\b|submitted\s*at
rx_search(c) ==
    \/ Then3(c, W_first, W_last, W_name)
    \/ Finds(c, W_tracking) # {}
    \/ Finds(c, W_clean) # {}
    \/ Finds(c, W_email) # {}
    \/ \E i \in Finds(c, W_token) :
           WordBoundary(c, i) /\ WordBoundary(c, i + Len(W_token))
    \/ \E i \in Finds(c, W_submitted) :
           IsAt(c, W_at, SkipSpace(c, i + Len(W_submitted)))

\* multi_re, line 63: select.*appl
multi_re_search(c) == Then2(c, W_select, W_appl)

\* photo_re, line 64: (take.*picture|attach.*picture|photo)
photo_re_search(c) ==
    \/ Then2(c, W_take, W_picture)
    \/ Then2(c, W_attach, W_picture)
    \/ Finds(c, W_photo) # {}

\* photo_cols = [c for c in df.columns if photo_re.search(c)], line 76
photo_columns(t) == {t[j].name : j \in {k \in 1..Len(t) : photo_re_search(t[k].name)}}

\* Mutant of drop_irrelevant: a photo column is spared by the irrelevant pass.
drop_irrelevant_keep_photo(t) ==
    SelectSeq(t, LAMBDA col : ~rx_search(col.name) \/ photo_re_search(col.name))

\* drop_irrelevant, lines 36-38
drop_irrelevant(t) == SelectSeq(t, LAMBDA col : ~rx_search(col.name))

----------------------------------------------------------------------------
(* make_slug, lines 60-61.                                                 *)

SlugLength == 20

\* re.sub(r"\W+", "_", name): every maximal run of non-word characters
\* becomes one underscore
RECURSIVE SubNonWord(_, _)
SubNonWord(str, i) ==
    IF i > Len(str) THEN <<>>
    ELSE IF str[i] \in WordChars THEN <<str[i]>> \o SubNonWord(str, i + 1)
    ELSE IF i > 1 /\ str[i - 1] \notin WordChars THEN SubNonWord(str, i + 1)
    ELSE <<"_">> \o SubNonWord(str, i + 1)

\* str.strip("_")
StripUnderscore(str) ==
    LET keep == {i \in 1..Len(str) : str[i] # "_"}
    IN IF keep = {} THEN <<>> ELSE SubSeq(str, Min(keep), Max(keep))

make_slug(name) ==
    LET full == Lower(StripUnderscore(SubNonWord(name, 1)))
    IN SubSeq(full, 1, IF Len(full) < SlugLength THEN Len(full) ELSE SlugLength)

----------------------------------------------------------------------------
(* The script body, lines 74-153, as functions of the uploaded table and   *)
(* the widget values.                                                      *)

Names(t) == List([j \in 1..Len(t) |-> t[j].name])
NameSet(t) == {t[j].name : j \in 1..Len(t)}

\* df[col]
column(t, c) == t[CHOOSE j \in 1..Len(t) : t[j].name = c]

\* the cells at the row positions `rows`, in row order
take(cells, rows) ==
    List([k \in 1..Cardinality(rows) |->
            cells[CHOOSE i \in rows : Cardinality({j \in rows : j < i}) = k - 1]])

\* the rows of df[df[segment_col] == val], line 134 (NaN equals nothing)
segment_rows(t, seg, val) ==
    {i \in 1..Len(column(t, seg).cells) :
        ~IsMissing(column(t, seg).cells[i]) /\ column(t, seg).cells[i] = val}

\* df[df[segment_col] == val][col]: the rows change, the dtype stays
segment_series(t, seg, val, c) ==
    [column(t, c) EXCEPT !.cells = take(column(t, c).cells, segment_rows(t, seg, val))]

\* df[segment_col].dropna().unique(), line 132: order of first appearance
unique_values(cells) ==
    LET nn == dropna(cells)
        firsts == {i \in 1..Len(nn) : \A j \in 1..(i - 1) : nn[j] # nn[i]}
    IN take(nn, firsts)

\* the truth value of segment_col in "if segment_col and ...", line 131:
\* None and the empty string are false
Truthy(x) == x # None /\ x # <<>>

\* fn = summarize_multi if multi_re.search(col) else summarize_simple
fn_name(c) == IF multi_re_search(c) THEN "summarize_multi" ELSE "summarize_simple"
fn_apply(c, ser) ==
    IF multi_re_search(c) THEN summarize_multi(ser) ELSE summarize_simple(ser)

\* Mutant of tally_input: the combined export tallies the segmented view.
tally_input_segmented(t, c) ==
    IF Truthy(segment_col) /\ segment_col # c /\ segment_col \in NameSet(t)
          /\ unique_values(column(t, segment_col).cells) # <<>>
    THEN segment_series(t, segment_col,
                        unique_values(column(t, segment_col).cells)[1], c)
    ELSE column(t, c)

\* df[col] of line 85
tally_input(t, c) == column(t, c)

\* lines 80-87: all_summaries and pd.concat(all_summaries).  A summarize_*
\* call that raises ends the script; pd.concat of an empty list raises
\* ValueError ("No objects to concatenate").
combined_summary(t, photo) ==
    LET tallied == SelectSeq(t, LAMBDA col : col.name \notin photo)
        one == List([k \in 1..Len(tallied) |->
                       fn_apply(tallied[k].name, tally_input(t, tallied[k].name))])
        tagged(k) == List([r \in 1..Len(one[k].rows) |->
                             [Question |-> tallied[k].name,
                              Response |-> one[k].rows[r].Response,
                              Count |-> one[k].rows[r].Count,
                              Percent |-> one[k].rows[r].Percent]])
    IN IF \E k \in 1..Len(tallied) : ~one[k].ok THEN Raised
       ELSE IF Len(tallied) = 0 THEN Raised
       ELSE Returned(Flatten(List([k \in 1..Len(tallied) |-> tagged(k)])))

W_Total == <<"T", "o", "t", "a", "l">>

\* lines 136-141 and 147-152: the Total row of a simple tally
total_row(rows) ==
    [Response |-> W_Total,
     Count |-> SumSeq(List([k \in 1..Len(rows) |-> rows[k].Count])),
     Percent |-> SumSeq(List([k \in 1..Len(rows) |-> rows[k].Percent]))]

\* one st.subheader + st.dataframe of the main display
tally_block(c, seg, val, rows, ser) ==
    LET got == fn_apply(c, ser)
    IN [col |-> c, kind |-> "tally", fn |-> fn_name(c), seg |-> seg, val |-> val,
        rows |-> rows, ok |-> got.ok,
        table |-> IF got.ok /\ fn_name(c) = "summarize_simple"
                  THEN Append(got.rows, total_row(got.rows)) ELSE got.rows]

\* lines 106-153 for one column: the blocks it renders
blocks_for(t, photo, seg, c) ==
    IF c \in photo
    THEN <<[col |-> c, kind |-> "photo", fn |-> "none", seg |-> None, val |-> None,
            rows |-> {}, ok |-> TRUE, table |-> <<>>]>>
    ELSE IF Truthy(seg) /\ seg # c
    THEN LET vals == unique_values(column(t, seg).cells)
         IN List([k \in 1..Len(vals) |->
                    tally_block(c, seg, vals[k], segment_rows(t, seg, vals[k]),
                                segment_series(t, seg, vals[k], c))])
    ELSE <<tally_block(c, None, None, 1..Len(column(t, c).cells), column(t, c))>>

main_display(t, photo, seg) ==
    Flatten(List([j \in 1..Len(t) |-> blocks_for(t, photo, seg, t[j].name)]))

----------------------------------------------------------------------------
(* The photo ZIP build, lines 110-128.                                     *)

\* ext = url.split(".")[-1].split("?")[0], line 118
ext_of(url) ==
    LET dots == {q \in 1..Len(url) : url[q] = "."}
        tail == IF dots = {} THEN url ELSE SubSeq(url, Max(dots) + 1, Len(url))
        marks == {q \in 1..Len(tail) : tail[q] = "?"}
    IN IF marks = {} THEN tail ELSE SubSeq(tail, 1, Min(marks) - 1)

\* no archive built in this run of the script
NoZip == [col |-> None, attempts |-> <<>>, entries |-> <<>>, responses |-> <<>>,
          offered |-> FALSE]

\* Mutant of zip_loop: the try wraps the loop, so the first failed fetch
\* ends it.
RECURSIVE zip_loop_abort(_, _, _, _)
zip_loop_abort(cells, slug, outcome, i) ==
    IF i > Len(cells) THEN [attempts |-> <<>>, entries |-> <<>>]
    ELSE IF IsMissing(cells[i]) THEN zip_loop_abort(cells, slug, outcome, i + 1)
    ELSE IF outcome[i] # "ok" THEN [attempts |-> <<i - 1>>, entries |-> <<>>]
    ELSE LET rest == zip_loop_abort(cells, slug, outcome, i + 1)
         IN [attempts |-> <<i - 1>> \o rest.attempts,
             entries |-> <<[slug |-> slug, idx |-> i - 1, ext |-> ext_of(cells[i])]>>
                         \o rest.entries]

\* for idx, url in df[col].dropna().items(): try ... except: pass, from row
\* position i on.  outcome[i] is what requests.get + raise_for_status do for
\* row i: "ok", or an exception ("error").  idx is the row label, i - 1.
RECURSIVE zip_loop(_, _, _, _)
zip_loop(cells, slug, outcome, i) ==
    IF i > Len(cells) THEN [attempts |-> <<>>, entries |-> <<>>]
    ELSE IF IsMissing(cells[i]) THEN zip_loop(cells, slug, outcome, i + 1)
    ELSE LET rest == zip_loop(cells, slug, outcome, i + 1)
         IN [attempts |-> <<i - 1>> \o rest.attempts,
             entries |-> (IF outcome[i] = "ok"
                          THEN <<[slug |-> slug, idx |-> i - 1, ext |-> ext_of(cells[i])]>>
                          ELSE <<>>) \o rest.entries]

----------------------------------------------------------------------------
(* The tables and strings the model draws.                                 *)

H_Seg == <<"S", "e", "g">>
H_Q1 == <<"Q", "1", " ", "(", "x", ")">>
H_Paren == <<"(", "x", ")">>
H_Multi == <<"S", "e", "l", "e", "c", "t", " ", "a", "p", "p", "l", "y">>
H_Email == <<"E", "m", "a", "i", "l">>
H_Photo == <<"P", "h", "o", "t", "o">>
H_PhotoEmail == <<"p", "h", "o", "t", "o", " ", "e", "m", "a", "i", "l">>
H_PhotoMulti == <<"p", "h", "o", "t", "o", " ", "s", "e", "l", "e", "c", "t",
                  " ", "a", "p", "p", "l">>
H_MyPhoto == <<"m", "y", " ", "P", "h", "o", "t", "o", "?", " ", "(", "x", ")">>

V_A == <<"A">>
V_AB == <<"A", ",", " ", "B">>
V_AA == <<"A", ",", "A">>
V_B == <<"B">>
V_Bc == <<" ", "B", ",">>

U_jpg == <<"u", ".", "j", "p", "g">>
U_png == <<"u", ".", "p", "n", "g", "?", "x">>
U_bare == <<"u">>

AnswerCells == {NaN, V_A, V_AB}
UrlCells == {NaN, U_jpg, U_png, U_bare}
TallyCells == {NaN, V_A, V_B, V_AB, V_AA, V_Bc}
HeaderChars == {"(", ")", " ", "a"}

\* the tables pd.read_csv can return for the header row `headers`, with at
\* most `maxrows` rows and column j's cells drawn from cellsets[j]
TablesOf(headers, cellsets, maxrows) ==
    UNION {
        {List([j \in 1..Len(headers) |-> Series(headers[j], List(m[j]))]) :
            m \in {f \in [1..Len(headers) -> UNION {[1..n -> cellsets[j]] :
                                                     j \in 1..Len(headers)}] :
                      \A j \in 1..Len(headers) :
                          \A i \in 1..n : f[j][i] \in cellsets[j]}}
        : n \in 0..maxrows}

AnswerTables ==
    TablesOf(<<H_Seg, H_Q1>>, <<AnswerCells, {NaN, V_A}>>, MaxRows)
    \cup TablesOf(<<H_Seg, H_Multi>>, <<AnswerCells, AnswerCells>>, MaxRows)
    \cup TablesOf(<<H_Seg, H_Q1, H_Multi>>, <<{V_A, V_AB}, {NaN, V_A}, {V_A, V_AB}>>, MaxRows)
    \cup TablesOf(<<H_Paren, H_Q1>>, <<AnswerCells, {NaN, V_A}>>, MaxRows)
    \cup TablesOf(<<H_PhotoEmail, H_Q1>>, <<{V_A}, {NaN, V_A}>>, MaxRows)
    \cup TablesOf(<<H_PhotoMulti, H_Q1>>, <<{NaN, V_A}, {NaN, V_A}>>, MaxRows)
    \cup TablesOf(<<H_Photo>>, <<{NaN, V_A}>>, MaxRows)
    \cup TablesOf(<<H_Email>>, <<{V_A}>>, MaxRows)

PhotoTables ==
    TablesOf(<<H_MyPhoto, H_Q1>>, <<UrlCells, {V_A}>>, MaxUrls)

Tables == AnswerTables \cup PhotoTables

\* every string over HeaderChars of length at most n
RECURSIVE StringsUpTo(_)
StringsUpTo(n) ==
    IF n = 0 THEN {<<>>}
    ELSE LET shorter == StringsUpTo(n - 1)
         IN shorter \cup {Append(w, ch) : w \in {x \in shorter : Len(x) = n - 1},
                                          ch \in HeaderChars}

\* every Series of at most n cells over TallyCells, as read from a file
SeriesUpTo(n) ==
    UNION {{Series(H_Multi, cells) : cells \in [1..k -> TallyCells]} : k \in 0..n}

NoTally == [ok |-> TRUE, rows |-> <<>>]

----------------------------------------------------------------------------
(* The session: upload, "Segment by", "Build ZIP".                         *)

Init ==
    /\ uploaded = NoFile
    /\ df = <<>>
    /\ photo_cols = {}
    /\ combined = NoTally
    /\ segment_col = None
    /\ shown = <<>>
    /\ status = "waiting"
    /\ passes = 0
    /\ prev = <<>>
    /\ s = Series(<<>>, <<>>)
    /\ sd = NoTally
    /\ fnname = "none"
    /\ zip = NoZip

\* One run of the script, lines 74-153, for the uploaded table `raw` with
\* the selectbox at `seg`.  An exception ends the run where it is raised:
\* nothing below the raising line is rendered, the selectbox of line 100
\* included.
Render(raw, seg) ==
    \E cleaned \in {clean_headers(raw)} :
    \E photo \in {photo_columns(cleaned)} :
    \E dfr \in {drop_irrelevant(cleaned)} :
    \E comb \in {combined_summary(dfr, photo)} :
        /\ df' = dfr
        /\ photo_cols' = photo
        /\ combined' = comb
        /\ IF ~comb.ok
           THEN /\ segment_col' = None
                /\ shown' = <<>>
                /\ status' = "crashed"
           ELSE \E disp \in {main_display(dfr, photo, seg)} :
                \E bad \in {{b \in 1..Len(disp) : ~disp[b].ok}} :
                    /\ segment_col' = seg
                    /\ shown' = IF bad = {} THEN disp ELSE SubSeq(disp, 1, Min(bad) - 1)
                    /\ status' = IF bad = {} THEN "rendered" ELSE "crashed"

\* lines 67-72: a file is uploaded and the script runs with the selectbox
\* at its first option, None
Upload(t) ==
    /\ status = "waiting"
    /\ uploaded' = t
    /\ Render(t, None)
    /\ zip' = NoZip
    /\ UNCHANGED <<passes, prev, s, sd, fnname>>

\* line 100: another option of the selectbox is chosen and the script
\* reruns on the same upload
SelectSegment(c) ==
    /\ status = "rendered"
    /\ c \in {None} \cup NameSet(df)
    /\ c # segment_col
    /\ Render(uploaded, c)
    /\ zip' = NoZip
    /\ UNCHANGED <<uploaded, passes, prev, s, sd, fnname>>

\* line 112: the "Build ZIP" button of photo column c is pressed; the script
\* reruns and builds the archive inside the column's display
BuildZip(c, outcome) ==
    /\ status = "rendered"
    /\ c \in photo_cols \cap NameSet(df)
    /\ LET built == zip_loop(column(df, c).cells, make_slug(c), outcome, 1)
       IN zip' = [col |-> c, attempts |-> built.attempts, entries |-> built.entries,
                  responses |-> outcome, offered |-> TRUE]
    /\ Render(uploaded, segment_col)
    /\ UNCHANGED <<uploaded, passes, prev, s, sd, fnname>>

Outcomes(c) ==
    [{i \in 1..Len(column(df, c).cells) : ~IsMissing(column(df, c).cells[i])}
        -> {"ok", "error"}]

Next ==
    \/ \E t \in Tables : Upload(t)
    \/ \E c \in {None} \cup NameSet(df) : SelectSegment(c)
    \/ \E c \in photo_cols \cap NameSet(df) : \E outcome \in Outcomes(c) : BuildZip(c, outcome)

Spec == Init /\ [][Next]_vars

----------------------------------------------------------------------------
(* The tally functions on their own: a Series, optionally a row subset of  *)
(* it, handed to summarize_simple or summarize_multi.                      *)

InitTally ==
    /\ uploaded = NoFile
    /\ df = <<>>
    /\ photo_cols = {}
    /\ combined = NoTally
    /\ segment_col = None
    /\ shown = <<>>
    /\ status = "series"
    /\ passes = 0
    /\ prev = <<>>
    /\ s \in SeriesUpTo(MaxCells)
    /\ sd = NoTally
    /\ fnname = "none"
    /\ zip = NoZip

\* df[df[segment_col] == val][col], line 134: a boolean mask keeps some rows
\* (at least one: val is a value of the segment column) and the dtype
SelectRows(rows) ==
    /\ status = "series"
    /\ rows # {} /\ rows # 1..Len(s.cells)
    /\ s' = [s EXCEPT !.cells = take(s.cells, rows)]
    /\ status' = "subset"
    /\ UNCHANGED <<uploaded, df, photo_cols, combined, segment_col, shown,
                   passes, prev, sd, fnname, zip>>

CallSimple ==
    /\ status \in {"series", "subset"}
    /\ sd' = summarize_simple(s)
    /\ fnname' = "summarize_simple"
    /\ status' = "tallied"
    /\ UNCHANGED <<uploaded, df, photo_cols, combined, segment_col, shown,
                   passes, prev, s, zip>>

CallMulti ==
    /\ status \in {"series", "subset"}
    /\ sd' = summarize_multi(s)
    /\ fnname' = "summarize_multi"
    /\ status' = "tallied"
    /\ UNCHANGED <<uploaded, df, photo_cols, combined, segment_col, shown,
                   passes, prev, s, zip>>

NextTally ==
    \/ \E rows \in SUBSET (1..Len(s.cells)) : SelectRows(rows)
    \/ CallSimple
    \/ CallMulti

SpecTally == InitTally /\ [][NextTally]_vars

----------------------------------------------------------------------------
(* Header normalization on its own: clean_headers applied to a table, and  *)
(* applied again to its result.                                            *)

MaxPasses == 2

InitNorm ==
    /\ uploaded \in {<<Series(n, <<>>)>> : n \in StringsUpTo(MaxLen)}
    /\ df = uploaded
    /\ photo_cols = {}
    /\ combined = NoTally
    /\ segment_col = None
    /\ shown = <<>>
    /\ status = "headers"
    /\ passes = 0
    /\ prev = Names(uploaded)
    /\ s = Series(<<>>, <<>>)
    /\ sd = NoTally
    /\ fnname = "none"
    /\ zip = NoZip

\* df = clean_headers(df), line 75
CleanHeaders ==
    /\ status = "headers"
    /\ passes < MaxPasses
    /\ prev' = Names(df)
    /\ df' = clean_headers(df)
    /\ passes' = passes + 1
    /\ UNCHANGED <<uploaded, photo_cols, combined, segment_col, shown, status,
                   s, sd, fnname, zip>>

NextNorm == CleanHeaders

SpecNorm == InitNorm /\ [][NextNorm]_vars

----------------------------------------------------------------------------
(* Properties.                                                             *)

\* the rows of a rendered block's table without its Total row
BodyRows(b) ==
    IF b.fn = "summarize_simple" /\ Len(b.table) > 0
    THEN SubSeq(b.table, 1, Len(b.table) - 1) ELSE b.table

Counts(rows) == List([k \in 1..Len(rows) |-> rows[k].Count])

\* the Count a tally gives response r, 0 when it has no such row
CountOf(rows, r) ==
    SumSeq(List([k \in 1..Len(rows) |-> IF rows[k].Response = r THEN rows[k].Count ELSE 0]))

\* the rows a rendered block is about: the whole table, or the rows whose
\* segment-column value is the block's value
RowsOf(b) ==
    IF b.seg = None THEN 1..Len(column(df, b.col).cells)
    ELSE {i \in 1..Len(column(df, b.seg).cells) : column(df, b.seg).cells[i] = b.val}

Blocks(c) == {b \in 1..Len(shown) : shown[b].col = c}
SegmentBlocks(c) == {b \in Blocks(c) : shown[b].seg # None}

\* the comma-split, trimmed tokens of one cell
TokenSet(cell) == {Strip(split_comma(cell)[k]) : k \in 1..Len(split_comma(cell))}

\* C1: every option of a multi-select tally is counted once per non-missing
\* cell whose comma-split, trimmed tokens include it, however often the cell
\* repeats it.
C1_CountIsCellsWithOption ==
    (status = "tallied" /\ fnname = "summarize_multi" /\ sd.ok) =>
        \A r \in 1..Len(sd.rows) :
            sd.rows[r].Count =
                Cardinality({i \in 1..Len(s.cells) :
                    ~IsMissing(s.cells[i]) /\ sd.rows[r].Response \in TokenSet(s.cells[i])})

\* C2: in every rendered simple tally, of the whole column or of a segment,
\* the Counts add up to the number of rows tallied, the missing cells of
\* those rows being the Count of the "nan" row, and the Total row that ends
\* the table holds that number.
C2_SimpleCountsSumToRows ==
    status = "rendered" =>
        \A b \in 1..Len(shown) :
            (shown[b].kind = "tally" /\ shown[b].fn = "summarize_simple") =>
                LET body == BodyRows(shown[b])
                    last == shown[b].table[Len(shown[b].table)]
                    cells == column(df, shown[b].col).cells
                IN /\ Len(shown[b].table) >= 1
                   /\ SumSeq(Counts(body)) = Cardinality(RowsOf(shown[b]))
                   /\ last.Response = W_Total
                   /\ last.Count = Cardinality(RowsOf(shown[b]))
                   /\ CountOf(body, StrNaN) =
                         Cardinality({i \in RowsOf(shown[b]) : IsMissing(cells[i])})

\* C2 witness: a segment of two rows, one of them missing in the tallied
\* column, with the Total row at 2.
C2_Witness ==
    /\ status = "rendered"
    /\ \E b \in 1..Len(shown) :
        /\ shown[b].fn = "summarize_simple"
        /\ shown[b].seg # None
        /\ Cardinality(RowsOf(shown[b])) = 2
        /\ CountOf(BodyRows(shown[b]), StrNaN) = 1
        /\ shown[b].table[Len(shown[b].table)].Count = 2

\* the retained columns that are tallied, in order
TalliedColumns == SelectSeq(df, LAMBDA col : ~photo_re_search(col.name))
OverallTally(c) == fn_apply(c, column(df, c))

\* C3: once a table is uploaded and each retained non-Photo column has an
\* Overall tally, the Combined Summary exists and is those tallies one after
\* the other in column order, each row tagged with its column: as many rows
\* as the tallies have together (0 when no non-Photo column is retained), no
\* row of a Photo column, no Total row.
C3_CombinedIsConcatenation ==
    (status \in {"rendered", "crashed"} /\ \A k \in 1..Len(TalliedColumns) :
            OverallTally(TalliedColumns[k].name).ok) =>
        /\ combined.ok
        /\ Len(combined.rows) =
              SumSeq(List([k \in 1..Len(TalliedColumns) |->
                              Len(OverallTally(TalliedColumns[k].name).rows)]))
        /\ \A r \in 1..Len(combined.rows) :
              /\ ~photo_re_search(combined.rows[r].Question)
              /\ combined.rows[r].Response # W_Total
        /\ \A k \in 1..Len(TalliedColumns) :
              LET c == TalliedColumns[k].name
                  mine == SelectSeq(combined.rows, LAMBDA row : row.Question = c)
              IN List([r \in 1..Len(mine) |->
                        [Response |-> mine[r].Response, Count |-> mine[r].Count,
                         Percent |-> mine[r].Percent]]) = OverallTally(c).rows

\* the rows whose segment-column value is not missing
NonMissingRows(c) == {i \in 1..Len(column(df, c).cells) : ~IsMissing(column(df, c).cells[i])}

\* the columns the tallies of a segmentation are applied to
OtherTallied(c) == {col \in NameSet(df) : col # c /\ ~photo_re_search(col)}

\* C4: with a segment column chosen, the row subsets rendered for a tallied
\* column other than it are pairwise disjoint, none is for the missing
\* value, and together they are the rows whose segment value is not missing.
C4_SegmentsPartitionNonMissing ==
    (status = "rendered" /\ segment_col # None) =>
        \A c \in OtherTallied(segment_col) :
            /\ \A a, b \in SegmentBlocks(c) :
                  a # b => shown[a].rows \cap shown[b].rows = {}
            /\ \A b \in SegmentBlocks(c) :
                  /\ ~IsMissing(shown[b].val)
                  /\ shown[b].rows = RowsOf(shown[b])
            /\ UNION {shown[b].rows : b \in SegmentBlocks(c)} = NonMissingRows(segment_col)

\* The classification a normalized name is to receive: Irrelevant, then
\* Photo, then MultiSelect, then Simple.
Classification(c) ==
    IF rx_search(c) THEN "Irrelevant"
    ELSE IF photo_re_search(c) THEN "Photo"
    ELSE IF multi_re_search(c) THEN "MultiSelect"
    ELSE "Simple"

Questions == {combined.rows[r].Question : r \in 1..Len(combined.rows)}

\* C5: whatever its cells, a column is treated by its normalized name alone:
\* an Irrelevant name (also one that matches a photo or multi-select
\* pattern) is no retained column, no segment choice, no display block and
\* no Question of the Combined Summary; a Photo name is retained and
\* displayed without any tally and is no Question; a MultiSelect name is
\* tallied by summarize_multi only and a Simple name by summarize_simple only.
C5_ClassifiedByNameWithPrecedence ==
    status \in {"rendered", "crashed"} =>
        \A j \in 1..Len(uploaded) :
            LET c == clean_header(uploaded[j].name)
                cls == Classification(c)
            IN /\ cls = "Irrelevant" =>
                    /\ c \notin NameSet(df)
                    /\ segment_col # c
                    /\ Blocks(c) = {}
                    /\ c \notin Questions
               /\ cls = "Photo" =>
                    /\ c \in NameSet(df)
                    /\ c \notin Questions
                    /\ \A b \in Blocks(c) : shown[b].kind = "photo" /\ shown[b].table = <<>>
                    /\ status = "rendered" => Cardinality(Blocks(c)) = 1
               /\ cls = "MultiSelect" =>
                    /\ c \in NameSet(df)
                    /\ \A b \in Blocks(c) : shown[b].fn = "summarize_multi"
                    /\ status = "rendered" => (Blocks(c) # {} \/ Truthy(segment_col))
               /\ cls = "Simple" =>
                    /\ c \in NameSet(df)
                    /\ \A b \in Blocks(c) : shown[b].fn = "summarize_simple"
                    /\ status = "rendered" => (Blocks(c) # {} \/ Truthy(segment_col))

\* C5 witness: a rendered table with a column whose name matches an
\* irrelevant and a photo pattern.
C5_Witness ==
    /\ status = "rendered"
    /\ \E j \in 1..Len(uploaded) :
        /\ rx_search(clean_header(uploaded[j].name))
        /\ photo_re_search(clean_header(uploaded[j].name))
        /\ clean_header(uploaded[j].name) \notin NameSet(df)

\* the row labels of the non-missing cells of a column, in row order
UrlLabels(cells) ==
    LET rows == {i \in 1..Len(cells) : ~IsMissing(cells[i])}
    IN take(List([i \in 1..Len(cells) |-> i - 1]), rows)

C7_CombinedIndependentOfSegment ==
    [][(status = "rendered" /\ uploaded' = uploaded) =>
            (combined' = combined /\ df' = df /\ status' = "rendered")]_vars

\* C7 witness: a segmented display (a block per segment value) beside a
\* Combined Summary with rows.
C7_Witness ==
    /\ status = "rendered"
    /\ Truthy(segment_col)
    /\ \E b \in 1..Len(shown) : shown[b].seg = segment_col /\ Cardinality(shown[b].rows) = 1
    /\ Len(combined.rows) >= 3

\* C8: normalizing the names of an already normalized table changes none.
C8_NormalizeIdempotent ==
    (status = "headers" /\ passes >= 2) => Names(df) = prev

\* C8 witness: the doubly nested "((a))", normalized twice, is ")".
C8_Witness ==
    /\ status = "headers"
    /\ passes = 2
    /\ Names(uploaded) = << <<"(", "(", "a", ")", ")">> >>
    /\ Names(df) = << <<")">> >>

\* C9: a tally of a Series without any value does not raise: summarize_simple
\* returns the single row of the missing category at 100.0 percent (no row
\* for a Series without rows) and summarize_multi returns an empty table.
C9_AllMissingDoesNotRaise ==
    (status = "tallied" /\ \A i \in 1..Len(s.cells) : IsMissing(s.cells[i])) =>
        /\ sd.ok
        /\ fnname = "summarize_multi" => sd.rows = <<>>
        /\ (fnname = "summarize_simple" /\ Len(s.cells) > 0) =>
              sd.rows = <<[Response |-> StrNaN, Count |-> Len(s.cells), Percent |-> 1000]>>

\* the distinct values of a column
ValueSet(c) == {column(df, c).cells[i] : i \in 1..Len(column(df, c).cells)}

\* C10: with a segment column without missing values chosen, every other
\* tallied column is rendered as one segment per distinct segment value,
\* each the tally of its own rows, and for every response the Counts of the
\* segments add up to its Count in the Overall tally of the column.
C10_SegmentsSumToOverall ==
    (status = "rendered" /\ segment_col # None /\ NonMissingRows(segment_col) # {}
        /\ NaN \notin ValueSet(segment_col)) =>
        \A c \in OtherTallied(segment_col) :
            /\ {shown[b].val : b \in SegmentBlocks(c)} = ValueSet(segment_col)
            /\ Cardinality(SegmentBlocks(c)) = Cardinality(ValueSet(segment_col))
            /\ Blocks(c) = SegmentBlocks(c)
            /\ \A b \in SegmentBlocks(c) :
                  BodyRows(shown[b]) =
                      fn_apply(c, [column(df, c) EXCEPT
                                      !.cells = take(column(df, c).cells, RowsOf(shown[b]))]).rows
            /\ \A r \in {OverallTally(c).rows[k].Response : k \in 1..Len(OverallTally(c).rows)}
                    \cup UNION {{shown[b].table[k].Response : k \in 1..Len(BodyRows(shown[b]))}
                                   : b \in SegmentBlocks(c)} :
                  SumSeq(List([k \in 1..Len(shown) |->
                                 IF k \in SegmentBlocks(c)
                                 THEN CountOf(BodyRows(shown[k]), r) ELSE 0]))
                      = CountOf(OverallTally(c).rows, r)

====
